---------------------------- MODULE Spec2Model ----------------------------
(***************************************************************************)
(* A model of OllamaClient (src/ollama_client.py): the generation gateway  *)
(* generate_response, the synthetic row generator, the batch orchestrator, *)
(* the batch response parser, the single-item enhancer and the two CSV     *)
(* entry points.                                                           *)
(*                                                                         *)
(* A Python str is a sequence of one-character strings, so that strip,     *)
(* split, find, lower and the substring test are computed as Python        *)
(* computes them.  The empty str is << >>.                                 *)
(***************************************************************************)
EXTENDS Integers, Sequences, FiniteSets, TLC

\* ------------------------------------------------------------------------
\* Python str primitives
\* ------------------------------------------------------------------------

MinOf(S) == CHOOSE x \in S : \A y \in S : x <= y

MaxOf(S) == CHOOSE x \in S : \A y \in S : x >= y

\* The backquote character, which a TLA+ string cannot hold
Backtick == "<backquote>"

\* The characters str.strip() removes
Whitespace == {" ", "\t", "\n", "\r"}

\* s.strip(chars): drop the leading and trailing characters that are in cs
StripSet(s, cs) ==
  LET keep == {k \in 1..Len(s) : s[k] \notin cs}
  IN  IF keep = {} THEN << >> ELSE SubSeq(s, MinOf(keep), MaxOf(keep))

\* s.strip()
Strip(s) == StripSet(s, Whitespace)

\* pat in s
Contains(s, pat) ==
  \E k \in 1..(Len(s) - Len(pat) + 1) : SubSeq(s, k, k + Len(pat) - 1) = pat

UpperAlpha ==
  <<"A","B","C","D","E","F","G","H","I","J","K","L","M",
    "N","O","P","Q","R","S","T","U","V","W","X","Y","Z">>

LowerAlpha ==
  <<"a","b","c","d","e","f","g","h","i","j","k","l","m",
    "n","o","p","q","r","s","t","u","v","w","x","y","z">>

LowerChar(c) ==
  IF \E k \in 1..26 : UpperAlpha[k] = c
  THEN LowerAlpha[CHOOSE k \in 1..26 : UpperAlpha[k] = c]
  ELSE c

\* s.lower()
Lower(s) == [k \in 1..Len(s) |-> LowerChar(s[k])]

\* s.split(sep): cut at each occurrence of sep, leftmost first
RECURSIVE Split(_, _)
Split(s, sep) ==
  LET n   == Len(sep)
      pos == {k \in 1..(Len(s) - n + 1) : SubSeq(s, k, k + n - 1) = sep}
  IN  IF pos = {}
      THEN <<s>>
      ELSE LET p == MinOf(pos)
           IN  <<SubSeq(s, 1, p - 1)>> \o Split(SubSeq(s, p + n, Len(s)), sep)

\* sep.join(parts)
RECURSIVE Join(_, _)
Join(parts, sep) ==
  IF parts = << >> THEN << >>
  ELSE IF Len(parts) = 1 THEN parts[1]
  ELSE parts[1] \o sep \o Join(Tail(parts), sep)

\* s.find(c) and s.rfind(c): 0-based index of the first / last c, or -1
Find(s, c) ==
  LET pos == {k \in 1..Len(s) : s[k] = c}
  IN  IF pos = {} THEN -1 ELSE MinOf(pos) - 1

RFind(s, c) ==
  LET pos == {k \in 1..Len(s) : s[k] = c}
  IN  IF pos = {} THEN -1 ELSE MaxOf(pos) - 1

\* s[a:b] with 0 <= a
Slice(s, a, b) == SubSeq(s, a + 1, IF b > Len(s) THEN Len(s) ELSE b)

\* c.isdigit()
IsDigit(c) == c \in {"0","1","2","3","4","5","6","7","8","9"}

Digits == <<"0","1","2","3","4","5","6","7","8","9">>

\* str(n) for a natural number n
RECURSIVE IntToStr(_)
IntToStr(n) ==
  IF n < 10 THEN <<Digits[n + 1]>>
  ELSE IntToStr(n \div 10) \o <<Digits[(n % 10) + 1]>>

\* ------------------------------------------------------------------------
\* Python values and call outcomes
\* ------------------------------------------------------------------------

PyStr(s) == [t |-> "str", s |-> s]

PyInt(n) == [t |-> "int", n |-> n]

PyBool(b) == [t |-> "bool", b |-> b]

PyNone == [t |-> "none"]

EmptyStr == PyStr(<< >>)

\* bool(v), as tested by "if v"
Truthy(v) ==
  CASE v.t = "str"  -> v.s /= << >>
    [] v.t = "int"  -> v.n /= 0
    [] v.t = "bool" -> v.b
    [] OTHER        -> FALSE

\* How a call ends: it returns a value, or an exception leaves it
Return(v) == [kind |-> "return", value |-> v]

Raise(e) == [kind |-> "raise", exc |-> e]

\* ------------------------------------------------------------------------
\* Generation gateway: generate_response
\*
\* An exchange is what requests.post and the response give back:
\*   [kind |-> "conn_error"]                    post raises ConnectionError
\*   [kind |-> "http_error"]                    raise_for_status raises
\*   [kind |-> "ok", body |-> b, lines |-> ls]  a success status
\* body is the decoding of the whole body (stream = False), lines the
\* decodings of the lines iter_lines yields (stream = True).  A decoding is
\*   [t |-> "undecodable"]   the text is not JSON
\*   [t |-> "object", keys |-> K, response |-> v, done |-> d]
\*   [t |-> "array"]         valid JSON that is not an object
\*   [t |-> "blank"]         an empty line (keep-alive)
\*   [t |-> "conn_lost"]     iter_lines raises ChunkedEncodingError
\* ------------------------------------------------------------------------

JsonObject(keys, response, done) ==
  [t |-> "object", keys |-> keys, response |-> response, done |-> done]

\* {"response": <text>} with no other key
ResponseObject(text) == JsonObject({"response"}, PyStr(text), PyBool(FALSE))

OkBody(b) == [kind |-> "ok", body |-> b, lines |-> << >>]

OkLines(ls) == [kind |-> "ok", body |-> [t |-> "undecodable"], lines |-> ls]

\* data.get('response', '') after data = response.json()
NonStreamingBody(body) ==
  CASE body.t = "undecodable" -> Return(EmptyStr)
    [] body.t = "object" ->
         Return(IF "response" \in body.keys THEN body.response ELSE EmptyStr)
    [] OTHER -> Raise("AttributeError")

\* Variant: the terminal flag is tested before the fragment is appended
StreamLineDoneFirst(acc, line) ==
  CASE line.t = "blank"       -> [next |-> "continue", acc |-> acc]
    [] line.t = "conn_lost"   -> [next |-> "end", outcome |-> Return(EmptyStr)]
    [] line.t = "undecodable" -> [next |-> "end", outcome |-> Return(EmptyStr)]
    [] line.t = "object" ->
         LET has  == "response" \in line.keys
             frag == line.response
             done == IF "done" \in line.keys THEN Truthy(line.done) ELSE FALSE
         IN  IF done THEN [next |-> "break", acc |-> acc]
             ELSE IF has /\ frag.t /= "str"
             THEN [next |-> "end", outcome |-> Raise("TypeError")]
             ELSE [next |-> "continue",
                   acc |-> IF has THEN acc \o frag.s ELSE acc]
    [] OTHER -> [next |-> "end", outcome |-> Raise("AttributeError")]

\* One turn of the loop over response.iter_lines() with accumulator acc:
\* the loop goes on with a new accumulator, breaks, or the call ends.
StreamLine(acc, line) ==
  CASE line.t = "blank"       -> [next |-> "continue", acc |-> acc]
    [] line.t = "conn_lost"   -> [next |-> "end", outcome |-> Return(EmptyStr)]
    [] line.t = "undecodable" -> [next |-> "end", outcome |-> Return(EmptyStr)]
    [] line.t = "object" ->
         LET has  == "response" \in line.keys
             frag == line.response
             acc2 == IF has THEN acc \o frag.s ELSE acc
             done == IF "done" \in line.keys THEN Truthy(line.done) ELSE FALSE
         IN  IF has /\ frag.t /= "str"
             THEN [next |-> "end", outcome |-> Raise("TypeError")]
             ELSE IF done THEN [next |-> "break", acc |-> acc2]
             ELSE [next |-> "continue", acc |-> acc2]
    [] OTHER -> [next |-> "end", outcome |-> Raise("AttributeError")]

RECURSIVE StreamLoop(_, _)
StreamLoop(acc, lines) ==
  IF lines = << >> THEN Return(PyStr(acc))
  ELSE LET r == StreamLine(acc, Head(lines))
       IN  CASE r.next = "end"      -> r.outcome
             [] r.next = "break"    -> Return(PyStr(r.acc))
             [] r.next = "continue" -> StreamLoop(r.acc, Tail(lines))

\* generate_response(prompt, stream) on the exchange the request meets
generate_response(exchange, stream) ==
  CASE exchange.kind = "conn_error" -> Return(EmptyStr)
    [] exchange.kind = "http_error" -> Return(EmptyStr)
    [] exchange.kind = "ok" ->
         IF stream THEN StreamLoop(<< >>, exchange.lines)
         ELSE NonStreamingBody(exchange.body)

\* unwanted_patterns of _parse_batch_response
unwanted_patterns_batch ==
  << <<"I","'","m"," ","s","o","r","r","y"," ","f","o","r"," ","m","i","s","u","n","d","e","r","s","t","a","n","d","i","n","g">>,
     <<"I","'","m"," ","s","o","r","r","y"," ","f","o","r"," ","a","n","y"," ","c","o","n","f","u","s","i","o","n">>,
     <<"a","s"," ","a","n"," ","A","I"," ","m","o","d","e","l">>,
     <<"a","s"," ","a","n"," ","A","I"," ","P","r","o","g","r","a","m","m","i","n","g"," ","A","s","s","i","s","t","a","n","t">>,
     <<"d","e","s","i","g","n","e","d"," ","t","o"," ","a","s","s","i","s","t"," ","w","i","t","h"," ","c","o","m","p","u","t","e","r"," ","s","c","i","e","n","c","e">>,
     <<"s","p","e","c","i","a","l","i","z","i","n","g"," ","i","n"," ","c","o","m","p","u","t","e","r"," ","s","c","i","e","n","c","e">>,
     <<"P","l","e","a","s","e"," ","n","o","t","e">>,
     <<"(","N","o","t","e",":">>,
     <<"(","P","l","e","a","s","e"," ","n","o","t","e">>,
     <<"E","n","h","a","n","c","e","d"," ","p","a","r","a","g","r","a","p","h","s",":">>,
     <<"E","n","h","a","n","c","e","d"," ","t","e","x","t","s",":">>,
     <<"O","u","t","p","u","t",":">>,
     <<"R","e","s","u","l","t",":">> >>

\* unwanted_patterns of _generate_enhanced_text
unwanted_patterns_single ==
  << <<"I","'","m"," ","s","o","r","r","y"," ","f","o","r"," ","m","i","s","u","n","d","e","r","s","t","a","n","d","i","n","g">>,
     <<"I","'","m"," ","s","o","r","r","y"," ","f","o","r"," ","a","n","y"," ","c","o","n","f","u","s","i","o","n">>,
     <<"a","s"," ","a","n"," ","A","I"," ","m","o","d","e","l">>,
     <<"a","s"," ","a","n"," ","A","I"," ","P","r","o","g","r","a","m","m","i","n","g"," ","A","s","s","i","s","t","a","n","t">>,
     <<"d","e","s","i","g","n","e","d"," ","t","o"," ","a","s","s","i","s","t"," ","w","i","t","h"," ","c","o","m","p","u","t","e","r"," ","s","c","i","e","n","c","e">>,
     <<"s","p","e","c","i","a","l","i","z","i","n","g"," ","i","n"," ","c","o","m","p","u","t","e","r"," ","s","c","i","e","n","c","e">>,
     <<"P","l","e","a","s","e"," ","n","o","t","e">>,
     <<"(","N","o","t","e",":">>,
     <<"(","P","l","e","a","s","e"," ","n","o","t","e">>,
     <<"E","n","h","a","n","c","e","d"," ","p","a","r","a","g","r","a","p","h",":">>,
     <<"E","n","h","a","n","c","e","d"," ","t","e","x","t",":">>,
     <<"O","u","t","p","u","t",":">>,
     <<"R","e","s","u","l","t",":">> >>

\* The two literal parts of the fallback paragraph around {original_text}
FallbackPrefix ==
  <<"P","u","r","s","u","a","n","t"," ","t","o"," ","t","h","e"," ","t","e","r","m","s"," ","a","n","d"," ","c","o","n","d","i","t","i","o","n","s"," ","o","u","t","l","i","n","e","d"," ","i","n"," ","t","h","i","s"," ","h","e","a","l","t","h","c","a","r","e"," ","p","o","l","i","c","y"," ","d","o","c","u","m","e","n","t",","," ">>

FallbackSuffix ==
  <<"."," ","T","h","i","s"," ","p","r","o","v","i","s","i","o","n"," ","s","h","a","l","l"," ","r","e","m","a","i","n"," ","i","n"," ","e","f","f","e","c","t"," ","f","o","r"," ","t","h","e"," ","d","u","r","a","t","i","o","n"," ","o","f"," ","t","h","e"," ","p","o","l","i","c","y"," ","p","e","r","i","o","d"," ","a","n","d"," ","m","a","y"," ","b","e"," ","s","u","b","j","e","c","t"," ","t","o"," ","r","e","v","i","e","w"," ","a","n","d"," ","m","o","d","i","f","i","c","a","t","i","o","n"," ","a","s"," ","d","e","e","m","e","d"," ","n","e","c","e","s","s","a","r","y"," ","b","y"," ","t","h","e"," ","p","o","l","i","c","y"," ","a","d","m","i","n","i","s","t","r","a","t","o","r",".">>
\* ------------------------------------------------------------------------
\* Cleanup shared in shape by the batch parser and the single-item enhancer
\* ------------------------------------------------------------------------

\* Variant: the pattern test without the lowering of either side
HasUnwantedCaseSensitive(line, patterns) ==
  \E k \in 1..Len(patterns) : Contains(line, patterns[k])

\* any(pattern.lower() in line.lower() for pattern in patterns)
HasUnwanted(line, patterns) ==
  \E k \in 1..Len(patterns) : Contains(Lower(line), Lower(patterns[k]))

\* The loop that fills cleaned_lines: each line stripped, kept when it is
\* not empty and holds no unwanted pattern
RECURSIVE CleanLines(_, _)
CleanLines(lines, patterns) ==
  IF lines = << >> THEN << >>
  ELSE LET line == Strip(Head(lines))
       IN  (IF line /= << >> /\ ~HasUnwanted(line, patterns)
            THEN <<line>> ELSE << >>)
           \o CleanLines(Tail(lines), patterns)

\* [text.strip() for text in parts if text.strip()]
RECURSIVE StripNonBlank(_)
StripNonBlank(parts) ==
  IF parts = << >> THEN << >>
  ELSE (IF Strip(Head(parts)) /= << >> THEN <<Strip(Head(parts))>> ELSE << >>)
       \o StripNonBlank(Tail(parts))

\* ------------------------------------------------------------------------
\* Batch response parser: _parse_batch_response
\* ------------------------------------------------------------------------

\* line and line[0].isdigit() and '.' in line[:3]
IsNumbered(line) ==
  line /= << >> /\ IsDigit(line[1]) /\ Contains(Slice(line, 0, 3), <<".">>)

\* line.split('.', 1)[1].strip() if '.' in line else line
AfterNumber(line) ==
  IF Contains(line, <<".">>)
  THEN Strip(SubSeq(line, Find(line, ".") + 2, Len(line)))
  ELSE line

\* The first numbered parse, over cleaned_lines
RECURSIVE NumberedLoop(_, _, _)
NumberedLoop(lines, enhanced_texts, current_text) ==
  LET flushed == IF current_text /= << >>
                 THEN Append(enhanced_texts, Strip(current_text))
                 ELSE enhanced_texts
  IN  IF lines = << >> THEN flushed
      ELSE LET line == Head(lines)
           IN  IF IsNumbered(line)
               THEN NumberedLoop(Tail(lines), flushed, AfterNumber(line))
               ELSE NumberedLoop(Tail(lines), enhanced_texts,
                                 IF current_text /= << >>
                                 THEN current_text \o <<" ">> \o line
                                 ELSE current_text)

\* The last grouping, over the non-blank lines of the raw response
RECURSIVE GroupLoop(_, _, _)
GroupLoop(lines, enhanced_texts, current_group) ==
  LET flushed == IF current_group /= << >>
                 THEN Append(enhanced_texts, Join(current_group, <<" ">>))
                 ELSE enhanced_texts
  IN  IF lines = << >> THEN flushed
      ELSE LET line == Head(lines)
           IN  IF IsNumbered(line)
               THEN GroupLoop(Tail(lines), flushed, <<AfterNumber(line)>>)
               ELSE GroupLoop(Tail(lines), enhanced_texts,
                              Append(current_group, line))

\* The marker the third strategy looks for
EnhancedMarker == <<"E","n","h","a","n","c","e","d",":">>

\* The run of _parse_batch_response: the list it returns (items), the
\* strategy whose list that is, and the cleaned_lines of its first loop.
ParseBatchRun(raw, expected_count) ==
  LET response      == Strip(raw)
      cleaned_lines == CleanLines(Split(response, <<"\n">>),
                                  unwanted_patterns_batch)
      numbered      == NumberedLoop(cleaned_lines, << >>, << >>)
      paragraphs    == StripNonBlank(Split(response, <<"\n", "\n">>))
      has_marker    == Contains(response, EnhancedMarker)
      after_marker  == StripNonBlank(
                         Split(Strip(Split(response, EnhancedMarker)[2]),
                               <<"\n">>))
      grouped       == GroupLoop(StripNonBlank(Split(response, <<"\n">>)),
                                 << >>, << >>)
      out(s, items) == [items |-> items, strategy |-> s,
                        cleaned_lines |-> cleaned_lines]
  IN  IF Len(numbered) = expected_count THEN out("numbered", numbered)
      ELSE IF Len(paragraphs) = expected_count
           THEN out("paragraphs", paragraphs)
      ELSE IF has_marker /\ Len(after_marker) = expected_count
           THEN out("marker", after_marker)
      ELSE out("grouped", grouped)

\* _parse_batch_response(response, expected_count)
parse_batch_response(raw, expected_count) ==
  ParseBatchRun(raw, expected_count).items

\* ------------------------------------------------------------------------
\* Single-item enhancer: _generate_enhanced_text
\* ------------------------------------------------------------------------

\* The paragraph returned when generation fails or is too short
FallbackEnhancedText(original_text) ==
  FallbackPrefix \o original_text \o FallbackSuffix

\* Below this length the cleaned response is replaced by the fallback
MinEnhancedLen == 20

\* response.strip().strip('"').strip("'") and the cleaning loop
SingleCleanedLines(text) ==
  CleanLines(Split(StripSet(StripSet(Strip(text), {"\""}), {"'"}),
                   <<"\n">>),
             unwanted_patterns_single)

\* ' '.join(cleaned_lines)
SingleCleaned(text) == Join(SingleCleanedLines(text), <<" ">>)

\* Variant: a cleaned response of exactly MinEnhancedLen characters is
\* refused as well
GenerateEnhancedTextAtMost(original_text, gw) ==
  IF gw.kind = "raise" THEN gw
  ELSE LET response == gw.value
       IN  IF ~Truthy(response)
           THEN Return(PyStr(FallbackEnhancedText(original_text)))
           ELSE IF response.t /= "str" THEN Raise("AttributeError")
           ELSE LET cleaned_response == SingleCleaned(response.s)
                IN  IF cleaned_response = << >>
                       \/ Len(cleaned_response) <= MinEnhancedLen
                    THEN Return(PyStr(FallbackEnhancedText(original_text)))
                    ELSE Return(PyStr(cleaned_response))

\* _generate_enhanced_text(original_text), given how its one call of
\* generate_response ended
generate_enhanced_text(original_text, gw) ==
  IF gw.kind = "raise" THEN gw
  ELSE LET response == gw.value
       IN  IF ~Truthy(response)
           THEN Return(PyStr(FallbackEnhancedText(original_text)))
           ELSE IF response.t /= "str" THEN Raise("AttributeError")
           ELSE LET cleaned_response == SingleCleaned(response.s)
                IN  IF cleaned_response = << >>
                       \/ Len(cleaned_response) < MinEnhancedLen
                    THEN Return(PyStr(FallbackEnhancedText(original_text)))
                    ELSE Return(PyStr(cleaned_response))

\* ------------------------------------------------------------------------
\* json.loads on the subset of JSON the model's responses are written in:
\* arrays, objects, strings without escapes, integers, true, false, null.
\* A parse yields [ok |-> TRUE, val |-> v, next |-> p] (p the position after
\* the value) or [ok |-> FALSE] where json.loads raises.
\* ------------------------------------------------------------------------

PyList(items) == [t |-> "list", items |-> items]

\* keys[i] maps to vals[i]; a later duplicate key overrides an earlier one
PyDict(keys, vals) == [t |-> "dict", keys |-> keys, vals |-> vals]

JsonFail == [ok |-> FALSE]

JsonOk(v, p) == [ok |-> TRUE, val |-> v, next |-> p]

\* The first position >= p that holds no JSON whitespace (Len(s)+1 if none)
SkipWs(s, p) ==
  LET stop == {q \in p..Len(s) : s[q] \notin Whitespace}
  IN  IF stop = {} THEN Len(s) + 1 ELSE MinOf(stop)

\* s[p] when p is inside s, "" otherwise
At(s, p) == IF p >= 1 /\ p <= Len(s) THEN s[p] ELSE ""

\* A string literal starting at the quote s[p]
JsonString(s, p) ==
  LET close == {q \in (p + 1)..Len(s) : s[q] = "\""}
  IN  IF close = {} THEN JsonFail
      ELSE LET q    == MinOf(close)
               body == SubSeq(s, p + 1, q - 1)
           IN  IF \E k \in 1..Len(body) : body[k] \in {"\\", "\n", "\t", "\r"}
               THEN JsonFail
               ELSE JsonOk(PyStr(body), q + 1)

RECURSIVE DigitsValue(_)
DigitsValue(ds) ==
  IF ds = << >> THEN 0
  ELSE 10 * DigitsValue(SubSeq(ds, 1, Len(ds) - 1))
       + (CHOOSE d \in 0..9 : Digits[d + 1] = ds[Len(ds)])

\* An integer literal starting at s[p]: -?(0|[1-9][0-9]*)
JsonNumber(s, p) ==
  LET neg   == At(s, p) = "-"
      first == IF neg THEN p + 1 ELSE p
      stop  == {q \in first..Len(s) : ~IsDigit(s[q])}
      last  == (IF stop = {} THEN Len(s) + 1 ELSE MinOf(stop)) - 1
      ds    == SubSeq(s, first, last)
  IN  IF ds = << >> \/ (Len(ds) > 1 /\ ds[1] = "0") THEN JsonFail
      ELSE JsonOk(PyInt(IF neg THEN 0 - DigitsValue(ds) ELSE DigitsValue(ds)),
                  last + 1)

JsonLiteral(s, p, word, v) ==
  IF SubSeq(s, p, p + Len(word) - 1) = word
  THEN JsonOk(v, p + Len(word)) ELSE JsonFail

RECURSIVE JsonValue(_, _)
RECURSIVE JsonItems(_, _, _)
RECURSIVE JsonMembers(_, _, _, _)

\* The elements of an array after its '[' (p at the first element)
JsonItems(s, p, acc) ==
  LET r == JsonValue(s, p)
  IN  IF ~r.ok THEN JsonFail
      ELSE LET q == SkipWs(s, r.next)
           IN  CASE At(s, q) = "," ->
                      JsonItems(s, SkipWs(s, q + 1), Append(acc, r.val))
                 [] At(s, q) = "]" -> JsonOk(PyList(Append(acc, r.val)), q + 1)
                 [] OTHER -> JsonFail

\* The members of an object after its '{' (p at the first key)
JsonMembers(s, p, keys, vals) ==
  IF At(s, p) /= "\"" THEN JsonFail
  ELSE LET k == JsonString(s, p)
       IN  IF ~k.ok THEN JsonFail
           ELSE LET c == SkipWs(s, k.next)
                IN  IF At(s, c) /= ":" THEN JsonFail
                    ELSE LET r == JsonValue(s, SkipWs(s, c + 1))
                         IN  IF ~r.ok THEN JsonFail
                             ELSE LET q  == SkipWs(s, r.next)
                                      ks == Append(keys, k.val.s)
                                      vs == Append(vals, r.val)
                                  IN  CASE At(s, q) = "," ->
                                             JsonMembers(s, SkipWs(s, q + 1),
                                                         ks, vs)
                                        [] At(s, q) = "}" ->
                                             JsonOk(PyDict(ks, vs), q + 1)
                                        [] OTHER -> JsonFail

JsonValue(s, p) ==
  LET c == At(s, p)
  IN  CASE c = "[" ->
             LET q == SkipWs(s, p + 1)
             IN  IF At(s, q) = "]" THEN JsonOk(PyList(<< >>), q + 1)
                 ELSE JsonItems(s, q, << >>)
        [] c = "{" ->
             LET q == SkipWs(s, p + 1)
             IN  IF At(s, q) = "}" THEN JsonOk(PyDict(<< >>, << >>), q + 1)
                 ELSE JsonMembers(s, q, << >>, << >>)
        [] c = "\"" -> JsonString(s, p)
        [] c = "t" -> JsonLiteral(s, p, <<"t","r","u","e">>, PyBool(TRUE))
        [] c = "f" -> JsonLiteral(s, p, <<"f","a","l","s","e">>, PyBool(FALSE))
        [] c = "n" -> JsonLiteral(s, p, <<"n","u","l","l">>, PyNone)
        [] c = "-" \/ IsDigit(c) -> JsonNumber(s, p)
        [] OTHER -> JsonFail

\* json.loads(s): one value, whitespace around it, nothing else
JsonLoads(s) ==
  LET r == JsonValue(s, SkipWs(s, 1))
  IN  IF r.ok /\ SkipWs(s, r.next) = Len(s) + 1 THEN r ELSE JsonFail

\* d.get(key, "")
DictGet(d, key) ==
  LET hit == {k \in 1..Len(d.keys) : d.keys[k] = key}
  IN  IF hit = {} THEN EmptyStr ELSE d.vals[MaxOf(hit)]

\* str(v) for a scalar v (the str of a list or a dict is not modelled)
PyToStr(v) ==
  CASE v.t = "str"  -> v.s
    [] v.t = "int"  -> IF v.n < 0 THEN <<"-">> \o IntToStr(0 - v.n)
                       ELSE IntToStr(v.n)
    [] v.t = "none" -> <<"N","o","n","e">>
    [] v.t = "bool" -> IF v.b THEN <<"T","r","u","e">>
                       ELSE <<"F","a","l","s","e">>

\* ------------------------------------------------------------------------
\* Synthetic row generator: _generate_synthetic_for_one_question
\* ------------------------------------------------------------------------

\* One templated row: {"answer": f"value_{i}", "text": f"Synthetic
\* response {i} for {field_name_value}: {field_question_value}"}
FallbackRow(i, field_name_value, field_question_value) ==
  [answer |-> <<"v","a","l","u","e","_">> \o IntToStr(i),
   text   |-> <<"S","y","n","t","h","e","t","i","c"," ",
                "r","e","s","p","o","n","s","e"," ">> \o IntToStr(i)
              \o <<" ","f","o","r"," ">> \o field_name_value
              \o <<":"," ">> \o field_question_value]

\* The rows the loop over the parsed items appends
RECURSIVE RowsOfItems(_)
RowsOfItems(items) ==
  IF items = << >> THEN << >>
  ELSE (IF Head(items).t = "dict"
        THEN <<[answer |-> Strip(PyToStr(DictGet(Head(items), <<"a","n","s","w","e","r">>))),
                text   |-> Strip(PyToStr(DictGet(Head(items), <<"t","e","x","t">>)))]>>
        ELSE << >>)
       \o RowsOfItems(Tail(items))

\* rows after the block guarded by raw: the parsed objects, or none
ParsedRows(raw) ==
  LET raw_stripped == Strip(StripSet(Strip(raw), {Backtick}))
      start        == Find(raw_stripped, "[")
      end          == RFind(raw_stripped, "]")
      parsed       == JsonLoads(Slice(raw_stripped, start, end + 1))
  IN  IF start /= -1 /\ end /= -1 /\ end > start
         /\ parsed.ok /\ parsed.val.t = "list"
      THEN RowsOfItems(parsed.val.items)
      ELSE << >>

\* [FallbackRow(i) for i in range(first, last + 1)]
FallbackRows(first, last, field_name_value, field_question_value) ==
  [k \in 1..(IF last >= first THEN last - first + 1 ELSE 0) |->
     FallbackRow(first + k - 1, field_name_value, field_question_value)]

\* Variant: the fallback rows numbered from 0
FillIfEmptyFromZero(rows, num_rows, field_name_value, field_question_value) ==
  IF rows = << >>
  THEN FallbackRows(0, num_rows - 1, field_name_value, field_question_value)
  ELSE rows

\* Variant: no truncation of a longer list
TruncateOrPadNoTruncate(rows, num_rows, field_name_value, field_question_value) ==
  IF Len(rows) < num_rows
  THEN rows \o FallbackRows(Len(rows) + 1, num_rows,
                            field_name_value, field_question_value)
  ELSE rows

\* Variant: the padding numbered from len(rows)
TruncateOrPadFromLen(rows, num_rows, field_name_value, field_question_value) ==
  IF Len(rows) > num_rows THEN SubSeq(rows, 1, num_rows)
  ELSE IF Len(rows) < num_rows
       THEN rows \o FallbackRows(Len(rows), num_rows - 1,
                                 field_name_value, field_question_value)
       ELSE rows

\* The fallback of the row generator: when rows is empty, num_rows templated rows
FillIfEmpty(rows, num_rows, field_name_value, field_question_value) ==
  IF rows = << >>
  THEN FallbackRows(1, num_rows, field_name_value, field_question_value)
  ELSE rows

\* Truncate or pad to exact length
TruncateOrPad(rows, num_rows, field_name_value, field_question_value) ==
  IF Len(rows) > num_rows THEN SubSeq(rows, 1, num_rows)
  ELSE IF Len(rows) < num_rows
       THEN rows \o FallbackRows(Len(rows) + 1, num_rows,
                                 field_name_value, field_question_value)
       ELSE rows

\* ------------------------------------------------------------------------
\* Model responses: what the generation endpoint may answer
\* ------------------------------------------------------------------------

\* two numbered items
RawScenario ==
  <<"1","."," ","F","o","o"," ","b","a","r"," ","b","a","z",".","\n","2","."," ","Q","u","x"," ","q","u","u","x",".">>

\* one unstructured paragraph
RawParagraph ==
  <<"T","h","e"," ","p","a","r","t","i","e","s"," ","h","e","r","e","b","y"," ","a","g","r","e","e"," ","t","o"," ","t","h","e"," ","t","e","r","m","s",".">>

\* a disclaimer line, then two numbered items
RawNoteNumbered ==
  <<"P","l","e","a","s","e"," ","n","o","t","e",":"," ","t","h","i","s"," ","i","s"," ","A","I","-","g","e","n","e","r","a","t","e","d","\n","1","."," ","F","o","o","\n","2","."," ","B","a","r">>

\* an upper-case disclaimer paragraph, then a paragraph
RawNoteParagraph ==
  <<"P","L","E","A","S","E"," ","N","O","T","E",":"," ","t","h","i","s"," ","i","s"," ","A","I","-","g","e","n","e","r","a","t","e","d","\n","\n","T","h","e"," ","p","a","r","t","i","e","s"," ","h","e","r","e","b","y"," ","a","g","r","e","e"," ","t","o"," ","t","h","e"," ","t","e","r","m","s",".">>

\* the marker line, then two plain lines
RawMarker ==
  <<"E","n","h","a","n","c","e","d",":","\n","F","o","o","\n","B","a","r">>

\* a numbered line with nothing after the number
RawEmptyItem ==
  <<"1",".","\n","2","."," ","B","a","r">>

\* whitespace only
RawBlank ==
  <<" "," ">>

\* a quoted answer shorter than 20 characters
RawQuotedShort ==
  <<"\"","S","h","o","r","t","\"">>

\* a quoted paragraph
RawQuotedLong ==
  <<"\"","T","h","e"," ","p","a","r","t","i","e","s"," ","h","e","r","e","b","y"," ","a","g","r","e","e"," ","t","o"," ","t","h","e"," ","t","e","r","m","s",".","\"">>

\* a numbered item with a continuation line
RawContinuation ==
  <<"1","."," ","F","o","o","\n","m","o","r","e","\n","2","."," ","B","a","r">>

\* a header only the single-item list names, then a paragraph
RawHeaderText ==
  <<"E","n","h","a","n","c","e","d"," ","t","e","x","t",":"," ","b","e","l","o","w","\n","T","h","e"," ","p","a","r","t","i","e","s"," ","h","e","r","e","b","y"," ","a","g","r","e","e"," ","t","o"," ","t","h","e"," ","t","e","r","m","s",".">>

\* three blank-line separated paragraphs
RawParagraphs ==
  <<"F","o","o","\n","\n","B","a","r","\n","\n","B","a","z">>

\* an unnumbered line before two numbered items
RawIntro ==
  <<"I","n","t","r","o","\n","1","."," ","F","o","o","\n","2","."," ","B","a","r">>

\* the marker twice
RawTwoMarkers ==
  <<"E","n","h","a","n","c","e","d",":","\n","F","o","o","\n","B","a","r","\n","E","n","h","a","n","c","e","d",":","\n","B","a","z">>

\* a number alone on its line, then the text of the item
RawNumberAlone ==
  <<"1",".","\n","m","o","r","e">>

\* exactly 20 characters, and 19
RawTwenty ==
  <<"E","x","a","c","t","l","y"," ","t","w","e","n","t","y"," ","c","h","a","r","s">>

RawNineteen ==
  <<"N","i","n","e","t","e","e","n"," ","c","h","a","r","a","c","t","e","r","s">>

RawPool ==
  {RawScenario,
   RawParagraph,
   RawNoteNumbered,
   RawNoteParagraph,
   RawMarker,
   RawEmptyItem,
   RawBlank,
   RawQuotedShort,
   RawQuotedLong,
   RawContinuation,
   RawHeaderText,
   RawParagraphs,
   RawIntro,
   RawTwoMarkers,
   RawNumberAlone,
   RawTwenty,
   RawNineteen}

RowsTwo ==
  <<"[","{","\"","a","n","s","w","e","r","\"",":"," ","\"","A","1","\"",","," ","\"","t","e","x","t","\"",":"," ","\"","T","1","\"","}",","," ","{","\"","a","n","s","w","e","r","\"",":"," ","\"","A","2","\"",","," ","\"","t","e","x","t","\"",":"," ","\"","T","2","\"","}","]">>

RowsCommentary ==
  <<"H","e","r","e",":"," ","[","{","\"","a","n","s","w","e","r","\"",":","\"","A","1","\"",",","\"","t","e","x","t","\"",":","\"","T","1","\"","}","]"," ","d","o","n","e">>

RowsFenced ==
  <<"<backquote>","<backquote>","<backquote>","[","{","\"","a","n","s","w","e","r","\"",":"," ","\""," ","A","1"," ","\"",","," ","\"","t","e","x","t","\"",":"," ","7","}","]","<backquote>","<backquote>","<backquote>">>

RowsNoArray ==
  <<"n","o"," ","a","r","r","a","y"," ","h","e","r","e">>

RowsWrongOrder ==
  <<"]"," ","o","o","p","s"," ","[">>

RowsBadJson ==
  <<"[","{","\"","a","n","s","w","e","r","\"",":"," ","\"","A","1","\"",","," ","\"","t","e","x","t","\"",":"," ","\"","T","1","\"","}",",","]">>

RowsNoObjects ==
  <<"[","1",","," ","\"","x","\"",","," ","n","u","l","l","]">>

RowsMixed ==
  <<"[","{","\"","a","n","s","w","e","r","\"",":","\"","A","1","\"","}",","," ","5",","," ","{","\"","t","e","x","t","\"",":","\"","T","3","\"","}","]">>

RowsNested ==
  <<"[","[","{","\"","a","n","s","w","e","r","\"",":","\"","A","1","\"",",","\"","t","e","x","t","\"",":","\"","T","1","\"","}","]","]">>

RowsTwoArrays ==
  <<"[","{","\"","a","n","s","w","e","r","\"",":","\"","A","1","\"",",","\"","t","e","x","t","\"",":","\"","T","1","\"","}","]"," ","a","n","d"," ","[","1","]">>

RowsFour ==
  <<"[","{","\"","a","n","s","w","e","r","\"",":","\"","A","1","\"","}",",","{","\"","a","n","s","w","e","r","\"",":","\"","A","2","\"","}",",","{","\"","a","n","s","w","e","r","\"",":","\"","A","3","\"","}",",","{","\"","a","n","s","w","e","r","\"",":","\"","A","4","\"","}","]">>

RowsEmptyArray ==
  <<"[","]">>
\* ------------------------------------------------------------------------
\* Bounds of the model
\* ------------------------------------------------------------------------

\* Longest streamed response, in lines
MaxChunks == 3

\* Largest num_rows / rows_per_question
MaxRows == 3

\* Largest expected_count handed to the parser on its own
MaxExpected == 3

\* Longest list of texts handed to the batch orchestrator
MaxTexts == 6

\* Most rows in an input CSV file
MaxCsvRows == 2

\* Most calls of the parser on one client
MaxParses == 2

\* ------------------------------------------------------------------------
\* State
\* ------------------------------------------------------------------------

VARIABLES
  op,                   \* the entry point this run calls
  pc,                   \* where the running call stands
  requests,             \* the generation requests issued so far, in order
  \* generate_response
  exchange,             \* what the request of generate_response meets
  stream,               \* its stream argument
  pos,                  \* lines of iter_lines consumed so far
  full_response,        \* its accumulator
  gw_out,               \* how the last generate_response ended
  \* _generate_synthetic_for_one_question
  field_name_value, field_question_value, num_rows,
  raw,                  \* the gateway's answer
  parsed_rows,          \* rows as the parse of raw left it
  rows,
  rows_out,             \* how the call ended
  \* _parse_batch_response and _generate_enhanced_text on their own
  unit_raw, expected_count, original_text,
  parse_run,            \* the run of the parser, once called
  enhanced_out,         \* how _generate_enhanced_text ended, once called
  parse_log,            \* the calls of the parser so far: arguments, result
  \* _generate_enhanced_texts_batch
  original_texts,
  i,                    \* offset of the current chunk
  response,             \* the gateway's answer for the current chunk
  all_enhanced_texts,
  fallback_pos,         \* items of the chunk already enhanced one by one
  chunk_log,            \* per chunk: what the parser and the enhancer did
  ea_out,               \* how the call ended
  \* process_csv_with_filler_sentences, generate_synthetic_from_questions
  input_file,           \* the input CSV: exists, fieldnames, rows
  csv_rows,             \* rows, as read and then updated
  text_indices,
  index,                \* questions written so far
  files_written,        \* the output CSV files written, in order
  csv_out               \* how the call ended

gw_vars == <<exchange, stream, pos, full_response, gw_out>>

rows_vars == <<field_name_value, field_question_value, num_rows, raw,
               parsed_rows, rows, rows_out>>

unit_vars == <<unit_raw, expected_count, original_text, parse_run,
               enhanced_out, parse_log>>

ea_vars == <<original_texts, i, response, all_enhanced_texts, fallback_pos,
             chunk_log, ea_out>>

csv_vars == <<input_file, csv_rows, text_indices, index, files_written,
              csv_out>>

vars == <<op, pc, requests, gw_vars, rows_vars, unit_vars, ea_vars, csv_vars>>

\* No call has ended yet
Pending == [kind |-> "none"]

\* The state of a group of variables no call has touched
GwIdle ==
  /\ exchange = [kind |-> "conn_error"]
  /\ stream = FALSE
  /\ pos = 0
  /\ full_response = << >>
  /\ gw_out = Pending

RowsIdle ==
  /\ field_name_value = << >>
  /\ field_question_value = << >>
  /\ num_rows = 0
  /\ raw = PyNone
  /\ parsed_rows = << >>
  /\ rows = << >>
  /\ rows_out = Pending

UnitIdle ==
  /\ unit_raw = << >>
  /\ expected_count = 0
  /\ original_text = << >>
  /\ parse_run = Pending
  /\ enhanced_out = Pending
  /\ parse_log = << >>

EaIdle ==
  /\ original_texts = << >>
  /\ i = 0
  /\ response = PyNone
  /\ all_enhanced_texts = << >>
  /\ fallback_pos = 0
  /\ chunk_log = << >>
  /\ ea_out = Pending

CsvIdle ==
  /\ input_file = [exists |-> FALSE]
  /\ csv_rows = << >>
  /\ text_indices = << >>
  /\ index = 0
  /\ files_written = << >>
  /\ csv_out = Pending

\* All sequences over S of length at most n
SeqsUpTo(S, n) == UNION {[1..k -> S] : k \in 0..n}

\* ------------------------------------------------------------------------
\* generate_response, step by step
\* ------------------------------------------------------------------------

\* Bodies of a non-streaming answer
GatewayBodies ==
  { [t |-> "undecodable"],
    [t |-> "array"],
    ResponseObject(<<"H","i">>),
    JsonObject({}, PyNone, PyNone),
    JsonObject({"response"}, PyNone, PyNone),
    JsonObject({"response"}, PyInt(5), PyNone) }

\* Lines of a streaming answer
GatewayLines ==
  { [t |-> "blank"],
    [t |-> "undecodable"],
    [t |-> "array"],
    JsonObject({"response", "done"}, PyStr(<<"a","b">>), PyBool(FALSE)),
    JsonObject({"response"}, PyStr(<<"c">>), PyNone),
    JsonObject({"response", "done"}, PyStr(<<"d">>), PyBool(TRUE)),
    JsonObject({"done"}, PyNone, PyBool(TRUE)),
    JsonObject({"response"}, PyInt(5), PyNone) }

GatewayExchanges(s) ==
  {[kind |-> "conn_error"], [kind |-> "http_error"]}
  \cup (IF s THEN {OkLines(ls) : ls \in SeqsUpTo(GatewayLines, MaxChunks)}
             \cup {OkLines(<<[t |-> "conn_lost"]>>)}
        ELSE {OkBody(b) : b \in GatewayBodies})

InitGateway ==
  /\ op = "generate_response"
  /\ pc = "gw_call"
  /\ requests = << >>
  /\ stream \in BOOLEAN
  /\ exchange \in GatewayExchanges(stream)
  /\ pos = 0
  /\ full_response = << >>
  /\ gw_out = Pending
  /\ RowsIdle /\ UnitIdle /\ EaIdle /\ CsvIdle

\* requests.post, raise_for_status and, when not streaming, the whole answer
GwPost ==
  /\ pc = "gw_call"
  /\ requests' = Append(requests, [kind |-> "generate", stream |-> stream])
  /\ IF exchange.kind = "ok" /\ stream
     THEN /\ pc' = "gw_stream"
          /\ full_response' = << >>
          /\ UNCHANGED gw_out
     ELSE /\ pc' = "gw_done"
          /\ gw_out' = generate_response(exchange, stream)
          /\ UNCHANGED full_response
  /\ UNCHANGED <<op, exchange, stream, pos, rows_vars, unit_vars, ea_vars,
                 csv_vars>>

\* One line of the streamed answer
GwStreamLine ==
  /\ pc = "gw_stream"
  /\ pos < Len(exchange.lines)
  /\ LET r == StreamLine(full_response, exchange.lines[pos + 1])
     IN  CASE r.next = "continue" ->
                /\ full_response' = r.acc
                /\ pos' = pos + 1
                /\ UNCHANGED <<pc, gw_out>>
           [] r.next = "break" ->
                /\ full_response' = r.acc
                /\ pos' = pos + 1
                /\ pc' = "gw_done"
                /\ gw_out' = Return(PyStr(r.acc))
           [] r.next = "end" ->
                /\ pos' = pos + 1
                /\ pc' = "gw_done"
                /\ gw_out' = r.outcome
                /\ UNCHANGED full_response
  /\ UNCHANGED <<op, requests, exchange, stream, rows_vars, unit_vars,
                 ea_vars, csv_vars>>

\* The streamed answer is exhausted: return full_response
GwStreamEnd ==
  /\ pc = "gw_stream"
  /\ pos = Len(exchange.lines)
  /\ pc' = "gw_done"
  /\ gw_out' = Return(PyStr(full_response))
  /\ UNCHANGED <<op, requests, exchange, stream, pos, full_response,
                 rows_vars, unit_vars, ea_vars, csv_vars>>

NextGateway == GwPost \/ GwStreamLine \/ GwStreamEnd

SpecGateway == InitGateway /\ [][NextGateway]_vars

\* ------------------------------------------------------------------------
\* _generate_synthetic_for_one_question, step by step
\* ------------------------------------------------------------------------

\* The whole call, given how its one call of generate_response ended
generate_synthetic_for_one_question(fname, fquestion, n, gw) ==
  IF gw.kind = "raise" THEN gw
  ELSE IF Truthy(gw.value) /\ gw.value.t /= "str"
       THEN Raise("AttributeError")
  ELSE LET parsed == IF Truthy(gw.value) THEN ParsedRows(gw.value.s)
                     ELSE << >>
       IN  Return(TruncateOrPad(FillIfEmpty(parsed, n, fname, fquestion),
                                n, fname, fquestion))

\* Responses from which the parse takes at least one object
RowResponsesWithObjects ==
  {RowsTwo, RowsCommentary, RowsFenced, RowsMixed, RowsFour}

\* Responses with no array region, invalid JSON in it, or no object in it
RowResponsesWithoutObjects ==
  {RowsNoArray, RowsWrongOrder, RowsBadJson, RowsNoObjects, RowsNested,
   RowsTwoArrays, RowsEmptyArray}

\* What a request of the row generator may meet
RowExchanges ==
  {[kind |-> "conn_error"], OkBody([t |-> "array"]),
   OkBody(JsonObject({"response"}, PyInt(5), PyNone)),
   OkBody(ResponseObject(<< >>))}
  \cup {OkBody(ResponseObject(r)) :
          r \in RowResponsesWithObjects \cup RowResponsesWithoutObjects}

FieldNames == {<<"a","g","e">>, <<"c","i","t","y">>}

FieldQuestions == {<<"W","h","i","c","h","?">>}

InitRows ==
  /\ op = "generate_rows"
  /\ pc = "rows_call"
  /\ requests = << >>
  /\ exchange \in RowExchanges
  /\ stream = FALSE
  /\ pos = 0
  /\ full_response = << >>
  /\ gw_out = Pending
  /\ field_name_value \in FieldNames
  /\ field_question_value \in FieldQuestions
  /\ num_rows \in 0..MaxRows
  /\ raw = PyNone
  /\ parsed_rows = << >>
  /\ rows = << >>
  /\ rows_out = Pending
  /\ UnitIdle /\ EaIdle /\ CsvIdle

\* raw = self.generate_response(prompt)
RowsGenerate ==
  /\ pc = "rows_call"
  /\ requests' = Append(requests, [kind |-> "rows", n |-> num_rows])
  /\ gw_out' = generate_response(exchange, FALSE)
  /\ IF gw_out'.kind = "raise"
     THEN /\ rows_out' = gw_out'
          /\ pc' = "rows_done"
          /\ UNCHANGED raw
     ELSE /\ raw' = gw_out'.value
          /\ pc' = "rows_parse"
          /\ UNCHANGED rows_out
  /\ UNCHANGED <<op, exchange, stream, pos, full_response, field_name_value,
                 field_question_value, num_rows, parsed_rows, rows,
                 unit_vars, ea_vars, csv_vars>>

\* The block guarded by raw: locate the array, parse it, collect the objects
RowsParse ==
  /\ pc = "rows_parse"
  /\ IF Truthy(raw) /\ raw.t /= "str"
     THEN /\ rows_out' = Raise("AttributeError")
          /\ pc' = "rows_done"
          /\ UNCHANGED <<rows, parsed_rows>>
     ELSE /\ rows' = IF Truthy(raw) THEN ParsedRows(raw.s) ELSE << >>
          /\ parsed_rows' = rows'
          /\ pc' = "rows_fill"
          /\ UNCHANGED rows_out
  /\ UNCHANGED <<op, requests, gw_vars, field_name_value,
                 field_question_value, num_rows, raw, unit_vars, ea_vars,
                 csv_vars>>

\* Fallback to templated rows if parsing failed
RowsFill ==
  /\ pc = "rows_fill"
  /\ rows' = FillIfEmpty(rows, num_rows, field_name_value,
                         field_question_value)
  /\ pc' = "rows_pad"
  /\ UNCHANGED <<op, requests, gw_vars, field_name_value,
                 field_question_value, num_rows, raw, parsed_rows, rows_out,
                 unit_vars, ea_vars, csv_vars>>

\* Truncate or pad to exact length, and return rows
RowsPad ==
  /\ pc = "rows_pad"
  /\ rows' = TruncateOrPad(rows, num_rows, field_name_value,
                           field_question_value)
  /\ rows_out' = Return(rows')
  /\ pc' = "rows_done"
  /\ UNCHANGED <<op, requests, gw_vars, field_name_value,
                 field_question_value, num_rows, raw, parsed_rows,
                 unit_vars, ea_vars, csv_vars>>

NextRows == RowsGenerate \/ RowsParse \/ RowsFill \/ RowsPad

SpecRows == InitRows /\ [][NextRows]_vars

\* ------------------------------------------------------------------------
\* _parse_batch_response and _generate_enhanced_text, each called once on
\* the same raw response
\* ------------------------------------------------------------------------

\* The source texts of the model: "text 1", "text 2", ...
SourceText(k) == <<"t","e","x","t"," ">> \o IntToStr(k)

\* What the request of the enhancer may meet when the model answers text
SingleExchangesFor(text) ==
  {[kind |-> "conn_error"], OkBody([t |-> "array"]),
   OkBody(JsonObject({"response"}, PyInt(5), PyNone)),
   OkBody(ResponseObject(text))}

InitUnit ==
  /\ op = "unit"
  /\ pc = "unit"
  /\ requests = << >>
  /\ unit_raw \in RawPool
  /\ expected_count \in 1..MaxExpected
  /\ original_text \in {SourceText(1), SourceText(2)}
  /\ exchange \in SingleExchangesFor(unit_raw)
  /\ stream = FALSE
  /\ pos = 0
  /\ full_response = << >>
  /\ gw_out = Pending
  /\ parse_run = Pending
  /\ enhanced_out = Pending
  /\ parse_log = << >>
  /\ RowsIdle /\ EaIdle /\ CsvIdle

\* self._parse_batch_response(unit_raw, expected_count)
UnitParse ==
  /\ pc = "unit"
  /\ parse_run = Pending
  /\ parse_run' = [kind |-> "return"] @@ ParseBatchRun(unit_raw, expected_count)
  /\ UNCHANGED <<op, pc, requests, gw_vars, rows_vars, unit_raw,
                 expected_count, original_text, enhanced_out, parse_log,
                 ea_vars, csv_vars>>

\* self._generate_enhanced_text(original_text)
UnitEnhance ==
  /\ pc = "unit"
  /\ enhanced_out = Pending
  /\ requests' = Append(requests, [kind |-> "single", text |-> original_text])
  /\ gw_out' = generate_response(exchange, FALSE)
  /\ enhanced_out' = generate_enhanced_text(original_text, gw_out')
  /\ UNCHANGED <<op, pc, exchange, stream, pos, full_response, rows_vars,
                 unit_raw, expected_count, original_text, parse_run,
                 parse_log, ea_vars, csv_vars>>

NextUnit == UnitParse \/ UnitEnhance

SpecUnit == InitUnit /\ [][NextUnit]_vars

\* ------------------------------------------------------------------------
\* One client, several calls of _parse_batch_response, with a call of
\* _generate_enhanced_text at any point between them
\* ------------------------------------------------------------------------

\* Responses handed to the parser here: one per strategy that can succeed
ParseCallRaws == {RawScenario, RawParagraphs, RawMarker}

\* Variant: the list of results lives on the client and is never reset
ParseCallRemembering(raw_response, count) ==
  LET run == ParseBatchRun(raw_response, count)
  IN  [run EXCEPT !.items =
         (IF parse_log = << >> THEN << >>
          ELSE parse_log[Len(parse_log)].items) \o @]

\* self._parse_batch_response(raw_response, count): the method reads its two
\* arguments and its own locals, and no attribute of self
ParseCall(raw_response, count) == ParseBatchRun(raw_response, count)

InitParseCalls ==
  /\ op = "parse_calls"
  /\ pc = "parse_calls"
  /\ requests = << >>
  /\ unit_raw = << >>
  /\ expected_count = 0
  /\ original_text = SourceText(1)
  /\ exchange \in {[kind |-> "conn_error"], OkBody(ResponseObject(RawQuotedLong))}
  /\ stream = FALSE
  /\ pos = 0
  /\ full_response = << >>
  /\ gw_out = Pending
  /\ parse_run = Pending
  /\ enhanced_out = Pending
  /\ parse_log = << >>
  /\ RowsIdle /\ EaIdle /\ CsvIdle

\* One more call of the parser
PcParse ==
  /\ pc = "parse_calls"
  /\ Len(parse_log) < MaxParses
  /\ \E r \in ParseCallRaws, n \in 1..MaxExpected :
       /\ unit_raw' = r
       /\ expected_count' = n
       /\ parse_run' = [kind |-> "return"] @@ ParseCall(r, n)
       /\ parse_log' = Append(parse_log,
                              [raw |-> r, expected_count |-> n,
                               items |-> parse_run'.items])
  /\ UNCHANGED <<op, pc, requests, gw_vars, rows_vars, original_text,
                 enhanced_out, ea_vars, csv_vars>>

\* The client enhances a text in between
PcEnhance ==
  /\ pc = "parse_calls"
  /\ enhanced_out = Pending
  /\ requests' = Append(requests, [kind |-> "single", text |-> original_text])
  /\ gw_out' = generate_response(exchange, FALSE)
  /\ enhanced_out' = generate_enhanced_text(original_text, gw_out')
  /\ UNCHANGED <<op, pc, exchange, stream, pos, full_response, rows_vars,
                 unit_raw, expected_count, original_text, parse_run,
                 parse_log, ea_vars, csv_vars>>

NextParseCalls == PcParse \/ PcEnhance

SpecParseCalls == InitParseCalls /\ [][NextParseCalls]_vars

\* ------------------------------------------------------------------------
\* Batch orchestrator: _generate_enhanced_texts_batch, step by step
\* ------------------------------------------------------------------------

\* Process 5 texts at a time
batch_size == 5

\* Variant: the slice runs one text too far
BatchTextsOneMore(texts, offset) == Slice(texts, offset, offset + batch_size + 1)

\* original_texts[i:i+batch_size]
BatchTexts(texts, offset) == Slice(texts, offset, offset + batch_size)

\* list(range(i+1, min(i+batch_size+1, len(original_texts)+1)))
BatchNumbers(texts, offset) ==
  LET stop == IF offset + batch_size + 1 < Len(texts) + 1
              THEN offset + batch_size + 1 ELSE Len(texts) + 1
  IN  [k \in 1..(IF stop > offset + 1 THEN stop - offset - 1 ELSE 0) |->
         offset + k]

\* Variant: a parse with more items than the chunk has texts is taken too
BatchAcceptedAtLeast(batch_enhanced, batch_texts) ==
  Len(batch_enhanced) >= Len(batch_texts)

\* Variant: any non-empty parse is taken
BatchAcceptedNonEmpty(batch_enhanced, batch_texts) ==
  batch_enhanced /= << >>

\* len(batch_enhanced) == len(batch_texts)
BatchAccepted(batch_enhanced, batch_texts) ==
  Len(batch_enhanced) = Len(batch_texts)

\* A response of k numbered lines: "1. Item 1", "2. Item 2", ...
NumberedResponse(k) ==
  Join([n \in 1..k |-> IntToStr(n) \o <<"."," ","I","t","e","m"," ">>
                       \o IntToStr(n)],
       <<"\n">>)

\* What the batch request of a chunk may meet
BatchExchanges ==
  {[kind |-> "conn_error"], OkBody([t |-> "array"]),
   OkBody(JsonObject({"response"}, PyInt(5), PyNone)),
   OkBody(ResponseObject(NumberedResponse(batch_size))),
   OkBody(ResponseObject(NumberedResponse(2))),
   OkBody(ResponseObject(RawParagraph)),
   OkBody(ResponseObject(RawEmptyItem))}

\* What the request of the enhancer may meet during the per-item fallback
FallbackExchanges ==
  {[kind |-> "conn_error"], OkBody([t |-> "array"]),
   OkBody(ResponseObject(RawQuotedLong))}

InitEnhanceWith(texts) ==
  /\ pc = "ea_loop"
  /\ original_texts = texts
  /\ i = 0
  /\ response = PyNone
  /\ all_enhanced_texts = << >>
  /\ fallback_pos = 0
  /\ chunk_log = << >>
  /\ ea_out = Pending

InitEnhance ==
  /\ op = "enhance_all"
  /\ requests = << >>
  /\ \E n \in 0..MaxTexts : InitEnhanceWith([k \in 1..n |-> SourceText(k)])
  /\ GwIdle /\ RowsIdle /\ UnitIdle /\ CsvIdle

\* The chunk the loop is at, and the record chunk_log keeps of it
CurrentChunk == chunk_log[Len(chunk_log)]

\* A chunk starts: response = self.generate_response(prompt)
EaBatchRequest ==
  /\ pc = "ea_loop"
  /\ i < Len(original_texts)
  /\ \E ex \in BatchExchanges :
       /\ exchange' = ex
       /\ gw_out' = generate_response(ex, FALSE)
  /\ requests' = Append(requests,
                        [kind |-> "batch", stream |-> FALSE,
                         numbers |-> BatchNumbers(original_texts, i)])
  /\ chunk_log' = Append(chunk_log,
                         [texts |-> BatchTexts(original_texts, i),
                          base |-> Len(all_enhanced_texts),
                          parser_called |-> FALSE,
                          batch_enhanced |-> << >>,
                          calls |-> << >>,
                          results |-> << >>,
                          closed |-> FALSE])
  /\ IF gw_out'.kind = "raise"
     THEN /\ ea_out' = gw_out'
          /\ pc' = "ea_done"
          /\ UNCHANGED response
     ELSE /\ response' = gw_out'.value
          /\ pc' = "ea_parse"
          /\ UNCHANGED ea_out
  /\ UNCHANGED <<op, stream, pos, full_response, rows_vars, unit_vars,
                 original_texts, i, all_enhanced_texts, fallback_pos,
                 csv_vars>>

\* The answer is parsed and, with the right count, taken as the chunk's output
EaParse ==
  /\ pc = "ea_parse"
  /\ LET batch_texts == BatchTexts(original_texts, i)
     IN  IF ~Truthy(response)
         THEN /\ pc' = "ea_fallback"
              /\ fallback_pos' = 0
              /\ UNCHANGED <<i, all_enhanced_texts, chunk_log, ea_out>>
         ELSE IF response.t /= "str"
         THEN /\ ea_out' = Raise("AttributeError")
              /\ pc' = "ea_done"
              /\ UNCHANGED <<i, all_enhanced_texts, chunk_log, fallback_pos>>
         ELSE LET batch_enhanced ==
                    parse_batch_response(response.s, Len(batch_texts))
                  logged == [chunk_log EXCEPT
                               ![Len(chunk_log)].parser_called = TRUE,
                               ![Len(chunk_log)].batch_enhanced = batch_enhanced]
              IN  IF BatchAccepted(batch_enhanced, batch_texts)
                  THEN /\ all_enhanced_texts' =
                            all_enhanced_texts \o batch_enhanced
                       /\ chunk_log' =
                            [logged EXCEPT ![Len(chunk_log)].closed = TRUE]
                       /\ i' = i + batch_size
                       /\ pc' = "ea_loop"
                       /\ UNCHANGED <<fallback_pos, ea_out>>
                  ELSE /\ chunk_log' = logged
                       /\ pc' = "ea_fallback"
                       /\ fallback_pos' = 0
                       /\ UNCHANGED <<i, all_enhanced_texts, ea_out>>
  /\ UNCHANGED <<op, requests, gw_vars, rows_vars, unit_vars, original_texts,
                 response, csv_vars>>

\* Fall back to individual processing: the next text of the chunk
EaFallbackItem ==
  /\ pc = "ea_fallback"
  /\ fallback_pos < Len(BatchTexts(original_texts, i))
  /\ LET text == BatchTexts(original_texts, i)[fallback_pos + 1]
     IN  /\ \E ex \in FallbackExchanges :
              /\ exchange' = ex
              /\ gw_out' = generate_response(ex, FALSE)
         /\ requests' = Append(requests, [kind |-> "single", text |-> text])
         /\ LET enhanced == generate_enhanced_text(text, gw_out')
            IN  IF enhanced.kind = "raise"
                THEN /\ ea_out' = enhanced
                     /\ pc' = "ea_done"
                     /\ chunk_log' =
                          [chunk_log EXCEPT
                             ![Len(chunk_log)].calls = Append(@, text)]
                     /\ UNCHANGED <<all_enhanced_texts, fallback_pos>>
                ELSE /\ all_enhanced_texts' =
                          Append(all_enhanced_texts, enhanced.value.s)
                     /\ fallback_pos' = fallback_pos + 1
                     /\ chunk_log' =
                          [chunk_log EXCEPT
                             ![Len(chunk_log)].calls = Append(@, text),
                             ![Len(chunk_log)].results =
                                Append(@, enhanced.value.s)]
                     /\ UNCHANGED <<pc, ea_out>>
  /\ UNCHANGED <<op, stream, pos, full_response, rows_vars, unit_vars,
                 original_texts, i, response, csv_vars>>

\* Variant: the loop over the chunk's texts is left after its first text
EaFallbackEndEarly ==
  /\ pc = "ea_fallback"
  /\ fallback_pos >= 1
  /\ chunk_log' = [chunk_log EXCEPT ![Len(chunk_log)].closed = TRUE]
  /\ i' = i + batch_size
  /\ pc' = "ea_loop"
  /\ UNCHANGED <<op, requests, gw_vars, rows_vars, unit_vars, original_texts,
                 response, all_enhanced_texts, fallback_pos, ea_out,
                 csv_vars>>

\* Every text of the chunk is enhanced: on to the next chunk
EaFallbackEnd ==
  /\ pc = "ea_fallback"
  /\ fallback_pos = Len(BatchTexts(original_texts, i))
  /\ chunk_log' = [chunk_log EXCEPT ![Len(chunk_log)].closed = TRUE]
  /\ i' = i + batch_size
  /\ pc' = "ea_loop"
  /\ UNCHANGED <<op, requests, gw_vars, rows_vars, unit_vars, original_texts,
                 response, all_enhanced_texts, fallback_pos, ea_out,
                 csv_vars>>

\* return all_enhanced_texts
EaReturn ==
  /\ pc = "ea_loop"
  /\ i >= Len(original_texts)
  /\ ea_out' = Return(all_enhanced_texts)
  /\ pc' = "ea_done"
  /\ UNCHANGED <<op, requests, gw_vars, rows_vars, unit_vars, original_texts,
                 i, response, all_enhanced_texts, fallback_pos, chunk_log,
                 csv_vars>>

NextEnhance ==
  EaBatchRequest \/ EaParse \/ EaFallbackItem \/ EaFallbackEnd \/ EaReturn

SpecEnhance == InitEnhance /\ [][NextEnhance]_vars

\* ------------------------------------------------------------------------
\* The CSV entry points: process_csv_with_filler_sentences and
\* generate_synthetic_from_questions, step by step
\*
\* input_file is the file at input_csv_path: [exists |-> FALSE], or
\* [exists |-> TRUE, fieldnames |-> f, rows |-> r] as csv.DictReader reads
\* it: f is PyNone for a file without a header line, else the PyList of the
\* column names; a row maps each column to its value, PyNone where the row
\* is too short, and [t |-> "absent"] for a column the header does not name.
\* ------------------------------------------------------------------------

ColId == <<"i","d">>

ColText == <<"t","e","x","t">>

ColFieldName == <<"f","i","e","l","d","_","n","a","m","e">>

ColFieldQuestion ==
  <<"f","i","e","l","d","_","q","u","e","s","t","i","o","n">>

InputPath == <<"i","n",".","c","s","v">>

Absent == [t |-> "absent"]

\* os.path.splitext(path)[0] for a path without directories
SplitExtBase(path) ==
  IF RFind(path, ".") <= 0 THEN path ELSE Slice(path, 0, RFind(path, "."))

\* output_csv_path when the caller gives none
AutoOutputPath(input_csv_path) ==
  SplitExtBase(input_csv_path)
    \o <<"_","w","i","t","h","_","f","i","l","l","e","r",".","c","s","v">>

\* 'text' not in fieldnames: the check, or the TypeError of a None header
TextColumnCheck(fieldnames) ==
  IF fieldnames.t = "none" THEN Raise("TypeError")
  ELSE IF \A k \in 1..Len(fieldnames.items) : fieldnames.items[k] /= ColText
       THEN Raise("ValueError")
       ELSE Return(PyNone)

\* The loop that extracts the non-empty texts: texts_to_process and
\* text_indices (0-based), or the exception row['text'].strip() raises
RECURSIVE ExtractTexts(_, _, _, _)
ExtractTexts(rs, k, texts, indices) ==
  IF k > Len(rs) THEN [kind |-> "return", texts |-> texts, indices |-> indices]
  ELSE LET v == rs[k].text
       IN  CASE v.t = "absent" -> Raise("KeyError")
             [] v.t = "none"   -> Raise("AttributeError")
             [] v.t = "str" ->
                  IF Strip(v.s) /= << >>
                  THEN ExtractTexts(rs, k + 1, Append(texts, Strip(v.s)),
                                    Append(indices, k - 1))
                  ELSE ExtractTexts(rs, k + 1, texts, indices)

\* Variant: the j-th enhanced text goes to the j-th row
UpdateRowsByPosition(rs, indices, enhanced_texts) ==
  [k \in 1..Len(rs) |->
     IF k <= Len(indices) /\ k <= Len(enhanced_texts)
     THEN [rs[k] EXCEPT !.text = PyStr(enhanced_texts[k])]
     ELSE rs[k]]

\* for i, enhanced_text in zip(text_indices, enhanced_texts):
\*     rows[i]['text'] = enhanced_text
UpdateRows(rs, indices, enhanced_texts) ==
  [k \in 1..Len(rs) |->
     IF \E z \in 1..Len(indices) :
          indices[z] = k - 1 /\ z <= Len(enhanced_texts)
     THEN [rs[k] EXCEPT !.text =
             PyStr(enhanced_texts[CHOOSE z \in 1..Len(indices) :
                                    indices[z] = k - 1])]
     ELSE rs[k]]

\* The values of the 'text' column the model's input files hold in row k
TextValues(k) ==
  { PyStr(<< >>), PyStr(<<" "," ">>), PyStr(<<" ">> \o SourceText(k) \o <<" ">>),
    PyNone }

\* Input files for process_csv_with_filler_sentences
TextFiles ==
  { [exists |-> FALSE],
    [exists |-> TRUE, fieldnames |-> PyNone, rows |-> << >>] }
  \cup { [exists |-> TRUE, fieldnames |-> PyList(<<ColId>>),
          rows |-> [k \in 1..n |-> [id |-> k, text |-> Absent]]] :
         n \in 0..MaxCsvRows }
  \cup UNION { { [exists |-> TRUE, fieldnames |-> PyList(<<ColId, ColText>>),
                  rows |-> [k \in 1..n |-> [id |-> k, text |-> f[k]]]] :
                 f \in { g \in [1..n -> UNION {TextValues(k) : k \in 1..n}] :
                           \A k \in 1..n : g[k] \in TextValues(k) } } :
               n \in 0..MaxCsvRows }

InitProcessCsv ==
  /\ op = "process_csv"
  /\ pc = "csv_call"
  /\ requests = << >>
  /\ input_file \in TextFiles
  /\ csv_rows = << >>
  /\ text_indices = << >>
  /\ index = 0
  /\ files_written = << >>
  /\ csv_out = Pending
  /\ GwIdle /\ RowsIdle /\ UnitIdle /\ EaIdle

\* enhanced_texts = self._generate_enhanced_texts_batch(texts): the call
CallEnhanceAll(texts) ==
  /\ pc' = "ea_loop"
  /\ original_texts' = texts
  /\ i' = 0
  /\ response' = PyNone
  /\ all_enhanced_texts' = << >>
  /\ fallback_pos' = 0
  /\ chunk_log' = << >>
  /\ ea_out' = Pending

\* if not os.path.exists(input_csv_path): raise FileNotFoundError
CsvOpen ==
  /\ op = "process_csv"
  /\ pc = "csv_call"
  /\ IF input_file.exists
     THEN pc' = "csv_read" /\ UNCHANGED csv_out
     ELSE pc' = "csv_done" /\ csv_out' = Raise("FileNotFoundError")
  /\ UNCHANGED <<op, requests, gw_vars, rows_vars, unit_vars, ea_vars,
                 input_file, csv_rows, text_indices, index, files_written>>

\* The header is read and checked, then the rows are read
CsvRead ==
  /\ op = "process_csv"
  /\ pc = "csv_read"
  /\ LET check == TextColumnCheck(input_file.fieldnames)
     IN  IF check.kind = "raise"
         THEN pc' = "csv_done" /\ csv_out' = check /\ UNCHANGED csv_rows
         ELSE pc' = "csv_extract" /\ csv_rows' = input_file.rows
              /\ UNCHANGED csv_out
  /\ UNCHANGED <<op, requests, gw_vars, rows_vars, unit_vars, ea_vars,
                 input_file, text_indices, index, files_written>>

\* Extract all non-empty texts; with any, call _generate_enhanced_texts_batch
CsvExtract ==
  /\ op = "process_csv"
  /\ pc = "csv_extract"
  /\ LET ex == ExtractTexts(csv_rows, 1, << >>, << >>)
     IN  IF ex.kind = "raise"
         THEN /\ pc' = "csv_done" /\ csv_out' = ex
              /\ UNCHANGED <<text_indices, ea_vars>>
         ELSE /\ text_indices' = ex.indices
              /\ UNCHANGED csv_out
              /\ IF ex.texts /= << >>
                 THEN CallEnhanceAll(ex.texts)
                 ELSE pc' = "csv_write" /\ UNCHANGED ea_vars
  /\ UNCHANGED <<op, requests, gw_vars, rows_vars, unit_vars, input_file,
                 csv_rows, index, files_written>>

\* _generate_enhanced_texts_batch is back: update the rows
CsvUpdate ==
  /\ op = "process_csv"
  /\ pc = "ea_done"
  /\ IF ea_out.kind = "raise"
     THEN pc' = "csv_done" /\ csv_out' = ea_out /\ UNCHANGED csv_rows
     ELSE /\ csv_rows' = UpdateRows(csv_rows, text_indices, ea_out.value)
          /\ pc' = "csv_write"
          /\ UNCHANGED csv_out
  /\ UNCHANGED <<op, requests, gw_vars, rows_vars, unit_vars, ea_vars,
                 input_file, text_indices, index, files_written>>

\* Write the processed data back to CSV and return the path
CsvWrite ==
  /\ op = "process_csv"
  /\ pc = "csv_write"
  /\ files_written' = Append(files_written,
                             [path |-> AutoOutputPath(InputPath),
                              fieldnames |-> input_file.fieldnames,
                              rows |-> csv_rows])
  /\ csv_out' = Return(PyStr(AutoOutputPath(InputPath)))
  /\ pc' = "csv_done"
  /\ UNCHANGED <<op, requests, gw_vars, rows_vars, unit_vars, ea_vars,
                 input_file, csv_rows, text_indices, index>>

\* c.isalnum() for an ASCII character
IsAlnum(c) ==
  IsDigit(c) \/ (\E k \in 1..26 : UpperAlpha[k] = c \/ LowerAlpha[k] = c)

\* ''.join(c if c.isalnum() or c in ('-', '_') else '_'
\*         for c in field_name_value.lower())
SafeFieldName(fname) ==
  [k \in 1..Len(fname) |->
     IF IsAlnum(Lower(fname)[k]) \/ Lower(fname)[k] \in {"-", "_"}
     THEN Lower(fname)[k] ELSE "_"]

\* f"{index:02d}_{safe_field_name}.csv"
QuestionFileName(idx, fname) ==
  (IF idx < 10 THEN <<"0">> ELSE << >>) \o IntToStr(idx) \o <<"_">>
    \o SafeFieldName(fname) \o <<".","c","s","v">>

\* Variant: one of the two required columns is enough
RequiredColumnsPresentAny(fieldnames) ==
  LET names == IF fieldnames.t = "none" THEN << >> ELSE fieldnames.items
      has(col) == \E k \in 1..Len(names) : Strip(names[k]) = col
  IN  has(ColFieldName) \/ has(ColFieldQuestion)

\* required.issubset(set(fn.strip() for fn in (reader.fieldnames or [])))
RequiredColumnsPresent(fieldnames) ==
  LET names == IF fieldnames.t = "none" THEN << >> ELSE fieldnames.items
      has(col) == \E k \in 1..Len(names) : Strip(names[k]) = col
  IN  has(ColFieldName) /\ has(ColFieldQuestion)

\* (row.get(column) or "").strip()
StrippedOrEmpty(v) == IF Truthy(v) THEN Strip(v.s) ELSE << >>

\* (row.get("field_name") or "").strip() or f"field_{index}"
FieldNameOf(row, idx) ==
  IF StrippedOrEmpty(row.field_name) /= << >>
  THEN StrippedOrEmpty(row.field_name)
  ELSE <<"f","i","e","l","d","_">> \o IntToStr(idx)

\* The rows the output file of one question gets
QuestionFileRows(fname, fquestion, synthetic_rows) ==
  [k \in 1..Len(synthetic_rows) |->
     [field_name |-> fname, field_question |-> fquestion,
      answer |-> synthetic_rows[k].answer, text |-> synthetic_rows[k].text]]

\* The rows a question file of the model holds
QuestionRows ==
  { [field_name |-> PyStr(<<"A","g","e"," ">>),
     field_question |-> PyStr(<<"W","h","i","c","h","?">>)],
    [field_name |-> PyStr(<<" "," ">>),
     field_question |-> PyStr(<<"W","h","i","c","h","?">>)],
    [field_name |-> PyNone, field_question |-> PyNone] }

\* Input files for generate_synthetic_from_questions
QuestionFiles ==
  { [exists |-> FALSE],
    [exists |-> TRUE, fieldnames |-> PyNone, rows |-> << >>] }
  \cup { [exists |-> TRUE, fieldnames |-> PyList(<<ColFieldName>>),
          rows |-> [k \in 1..n |->
                      [field_name |-> PyStr(<<"A","g","e"," ">>),
                       field_question |-> PyNone]]] :
         n \in 0..MaxCsvRows }
  \cup { [exists |-> TRUE,
          fieldnames |-> PyList(<<<<" ">> \o ColFieldName,
                                  ColFieldQuestion \o <<" ">>>>),
          rows |-> [k \in 1..n |->
                      [field_name |-> PyNone, field_question |-> PyNone]]] :
         n \in 0..MaxCsvRows }
  \cup { [exists |-> TRUE,
          fieldnames |-> PyList(<<ColFieldName, ColFieldQuestion>>),
          rows |-> r] : r \in SeqsUpTo(QuestionRows, MaxCsvRows) }

\* What the request for one question's rows may meet
QuestionExchanges ==
  {[kind |-> "conn_error"], OkBody([t |-> "array"]),
   OkBody(ResponseObject(RowsTwo))}

InitQuestions ==
  /\ op = "questions"
  /\ pc = "q_call"
  /\ requests = << >>
  /\ input_file \in QuestionFiles
  /\ csv_rows = << >>
  /\ text_indices = << >>
  /\ index = 0
  /\ files_written = << >>
  /\ csv_out = Pending
  /\ field_name_value = << >>
  /\ field_question_value = << >>
  /\ num_rows \in 0..MaxRows
  /\ raw = PyNone
  /\ parsed_rows = << >>
  /\ rows = << >>
  /\ rows_out = Pending
  /\ GwIdle /\ UnitIdle /\ EaIdle

\* if not os.path.exists(input_csv_path): raise FileNotFoundError
QOpen ==
  /\ op = "questions"
  /\ pc = "q_call"
  /\ IF input_file.exists
     THEN pc' = "q_read" /\ UNCHANGED csv_out
     ELSE pc' = "csv_done" /\ csv_out' = Raise("FileNotFoundError")
  /\ UNCHANGED <<op, requests, gw_vars, rows_vars, unit_vars, ea_vars,
                 input_file, csv_rows, text_indices, index, files_written>>

\* The header is read and checked, then the questions are read
QRead ==
  /\ op = "questions"
  /\ pc = "q_read"
  /\ IF RequiredColumnsPresent(input_file.fieldnames)
     THEN pc' = "q_loop" /\ csv_rows' = input_file.rows /\ UNCHANGED csv_out
     ELSE pc' = "csv_done" /\ csv_out' = Raise("ValueError")
          /\ UNCHANGED csv_rows
  /\ UNCHANGED <<op, requests, gw_vars, rows_vars, unit_vars, ea_vars,
                 input_file, text_indices, index, files_written>>

\* One question: its rows are generated and its file is written
QQuestion ==
  /\ op = "questions"
  /\ pc = "q_loop"
  /\ index < Len(csv_rows)
  /\ LET idx == index + 1
         fname == FieldNameOf(csv_rows[idx], idx)
         fquestion == StrippedOrEmpty(csv_rows[idx].field_question)
     IN  /\ field_name_value' = fname
         /\ field_question_value' = fquestion
         /\ requests' = Append(requests, [kind |-> "rows", n |-> num_rows])
         /\ \E ex \in QuestionExchanges :
              /\ exchange' = ex
              /\ gw_out' = generate_response(ex, FALSE)
         /\ rows_out' = generate_synthetic_for_one_question(
                          fname, fquestion, num_rows, gw_out')
         /\ IF rows_out'.kind = "raise"
            THEN /\ pc' = "csv_done"
                 /\ csv_out' = rows_out'
                 /\ UNCHANGED <<index, files_written>>
            ELSE /\ files_written' =
                      Append(files_written,
                             [path |-> QuestionFileName(idx, fname),
                              fieldnames |->
                                PyList(<<ColFieldName, ColFieldQuestion,
                                         <<"a","n","s","w","e","r">>,
                                         ColText>>),
                              rows |-> QuestionFileRows(fname, fquestion,
                                                        rows_out'.value)])
                 /\ index' = idx
                 /\ UNCHANGED <<pc, csv_out>>
  /\ UNCHANGED <<op, stream, pos, full_response, num_rows, raw, parsed_rows,
                 rows, unit_vars, ea_vars, input_file, csv_rows,
                 text_indices>>

\* return generated_paths
QReturn ==
  /\ op = "questions"
  /\ pc = "q_loop"
  /\ index = Len(csv_rows)
  /\ csv_out' = Return([k \in 1..Len(files_written) |-> files_written[k].path])
  /\ pc' = "csv_done"
  /\ UNCHANGED <<op, requests, gw_vars, rows_vars, unit_vars, ea_vars,
                 input_file, csv_rows, text_indices, index, files_written>>

InitCsv == InitProcessCsv \/ InitQuestions

NextCsv ==
  \/ CsvOpen \/ CsvRead \/ CsvExtract \/ CsvUpdate \/ CsvWrite
  \/ EaBatchRequest \/ EaParse \/ EaFallbackItem \/ EaFallbackEnd \/ EaReturn
  \/ QOpen \/ QRead \/ QQuestion \/ QReturn

SpecCsv == InitCsv /\ [][NextCsv]_vars

\* Every behaviour of every entry point
Init ==
  InitGateway \/ InitRows \/ InitUnit \/ InitParseCalls \/ InitEnhance
  \/ InitCsv

Next ==
  NextGateway \/ NextRows \/ NextUnit \/ NextParseCalls \/ NextEnhance
  \/ NextCsv

Spec == Init /\ [][Next]_vars

\* ------------------------------------------------------------------------
\* Properties
\* ------------------------------------------------------------------------

\* Output of chunk number k of chunk_log, read from all_enhanced_texts
ChunkOutput(k) ==
  SubSeq(all_enhanced_texts, chunk_log[k].base + 1,
         IF k < Len(chunk_log) THEN chunk_log[k + 1].base
         ELSE Len(all_enhanced_texts))

\* The last call of generate_response did not return a string
GatewayFaulted ==
  gw_out.kind = "raise" \/ (gw_out.kind = "return" /\ gw_out.value.t /= "str")

\* C1: _generate_enhanced_texts_batch returns a list as long as the list of
\* texts it was given, whatever strings the gateway answered for each chunk
\* and each per-item request; it ends otherwise only on a gateway call that
\* did not return a string.
C1_OutputLengthEqualsInput ==
  pc = "ea_done"
    => IF ea_out.kind = "return"
       THEN Len(ea_out.value) = Len(original_texts)
       ELSE GatewayFaulted

\* C1 witness: a returned run over two chunks, one taken from the parser
\* and one enhanced item by item.
C1_Witness ==
  /\ pc = "ea_done"
  /\ ea_out.kind = "return"
  /\ Len(original_texts) > batch_size
  /\ \E k \in 1..Len(chunk_log) : chunk_log[k].calls /= << >>
  /\ \E k \in 1..Len(chunk_log) :
       chunk_log[k].parser_called /\ chunk_log[k].calls = << >>

\* C2: _generate_synthetic_for_one_question returns exactly num_rows rows,
\* for every num_rows >= 0 and every string the gateway answers; it ends
\* otherwise only on a gateway call that did not return a string.
C2_RowCountExact ==
  pc = "rows_done"
    => IF rows_out.kind = "return"
       THEN Len(rows_out.value) = num_rows
       ELSE GatewayFaulted

\* C2 witness: more objects were parsed than rows were asked for.
C2_Witness ==
  /\ pc = "rows_done"
  /\ rows_out.kind = "return"
  /\ num_rows >= 1
  /\ Len(parsed_rows) > num_rows

\* The exchange of generate_response failed: no connection, an error
\* status, a body that is not an object with a response field, or a
\* consumed line that is not a JSON object.
C3_ExchangeFailed ==
  \/ exchange.kind /= "ok"
  \/ /\ ~stream
     /\ \/ exchange.body.t /= "object"
        \/ "response" \notin exchange.body.keys
  \/ /\ stream
     /\ \E k \in 1..pos : exchange.lines[k].t \notin {"object", "blank"}

\* C3: generate_response always ends by returning a string, never by an
\* exception reaching its caller, and the string is empty when the
\* exchange failed.
C3_AlwaysReturnsString ==
  pc = "gw_done"
    => /\ gw_out.kind = "return"
       /\ gw_out.value.t = "str"
       /\ C3_ExchangeFailed => gw_out.value.s = << >>

\* C4: a chunk whose parse has exactly as many items as the chunk has texts
\* contributes that parsed list and no call of the enhancer; any other
\* chunk (another count, or an empty answer and so no parse) contributes
\* the results of one enhancer call per text, in the order of the texts.
C4_ChunkOutcome ==
  \A k \in 1..Len(chunk_log) :
    LET c == chunk_log[k]
    IN  IF c.parser_called /\ Len(c.batch_enhanced) = Len(c.texts)
        THEN /\ c.calls = << >>
             /\ c.closed => ChunkOutput(k) = c.batch_enhanced
        ELSE /\ Len(c.calls) <= Len(c.texts)
             /\ c.calls = SubSeq(c.texts, 1, Len(c.calls))
             /\ c.closed => (c.calls = c.texts /\ ChunkOutput(k) = c.results)

\* C4 witness: a chunk of five texts whose parse had another count was
\* enhanced text by text, and a later chunk was taken from the parser.
C4_Witness ==
  /\ Len(chunk_log) = 2
  /\ chunk_log[1].closed /\ chunk_log[2].closed
  /\ chunk_log[1].parser_called
  /\ Len(chunk_log[1].batch_enhanced) /= batch_size
  /\ Len(chunk_log[1].calls) = batch_size
  /\ chunk_log[2].parser_called /\ chunk_log[2].calls = << >>

\* C5: _generate_enhanced_text ends by returning a non-empty string, never
\* by an exception.
C5_NeverFails ==
  enhanced_out.kind /= "none"
    => /\ enhanced_out.kind = "return"
       /\ enhanced_out.value.t = "str"
       /\ enhanced_out.value.s /= << >>

\* The synthetic row generator's template for index idx
C6_TemplatedRow(idx) ==
  [answer |-> <<"v","a","l","u","e","_">> \o IntToStr(idx),
   text   |-> <<"S","y","n","t","h","e","t","i","c"," ",
                "r","e","s","p","o","n","s","e"," ">> \o IntToStr(idx)
              \o <<" ","f","o","r"," ">> \o field_name_value
              \o <<":"," ">> \o field_question_value]

\* C6: with k >= 1 parsed objects the returned rows are the first
\* min(k, num_rows) parsed rows, unchanged and in order, followed by the
\* templated rows of indices k+1 .. num_rows.
C6_ParsedThenPadded ==
  (pc = "rows_done" /\ rows_out.kind = "return" /\ Len(parsed_rows) >= 1)
    => /\ Len(rows_out.value) = num_rows
       /\ \A idx \in 1..num_rows :
            rows_out.value[idx] =
              IF idx <= Len(parsed_rows) THEN parsed_rows[idx]
              ELSE C6_TemplatedRow(idx)
       /\ raw.s = RowsTwo =>
            parsed_rows = <<[answer |-> <<"A","1">>, text |-> <<"T","1">>],
                            [answer |-> <<"A","2">>, text |-> <<"T","2">>]>>

\* C6 witness: two objects parsed, three rows asked for.
C6_Witness ==
  /\ pc = "rows_done"
  /\ rows_out.kind = "return"
  /\ raw.s = RowsTwo
  /\ num_rows = 3

\* C7: an empty answer, an answer without a bracketed region, with invalid
\* JSON in it or with no object in the array yields exactly the templated
\* rows of indices 1 .. num_rows.
C7_FallbackRows ==
  (/\ pc = "rows_done"
   /\ rows_out.kind = "return"
   /\ raw.t = "str"
   /\ raw.s \in RowResponsesWithoutObjects \cup {<< >>})
    => rows_out.value = [idx \in 1..num_rows |-> C6_TemplatedRow(idx)]

\* C7 witness: an array without objects, two rows or more asked for.
C7_Witness ==
  /\ pc = "rows_done"
  /\ rows_out.kind = "return"
  /\ raw.t = "str"
  /\ raw.s = RowsNoObjects
  /\ num_rows >= 2

\* C8: _generate_enhanced_text returns the fallback paragraph around the
\* original text when the gateway's answer is empty or the cleaned answer
\* is empty or shorter than 20 characters, and the cleaned answer otherwise.
C8_FallbackExactlyWhenShort ==
  enhanced_out.kind = "return"
    => LET answer  == gw_out.value
           cleaned == SingleCleaned(answer.s)
       IN  IF ~Truthy(answer) \/ cleaned = << >> \/ Len(cleaned) < 20
           THEN enhanced_out.value =
                  PyStr(FallbackPrefix \o original_text \o FallbackSuffix)
           ELSE enhanced_out.value = PyStr(cleaned)

\* C8 witness: a cleaned answer of exactly 20 characters is returned as is.
C8_Witness ==
  /\ enhanced_out.kind = "return"
  /\ exchange = OkBody(ResponseObject(RawTwenty))
  /\ enhanced_out.value = PyStr(RawTwenty)

\* The phrases both cleanups name
C9_Phrases ==
  {unwanted_patterns_batch[k] : k \in 1..Len(unwanted_patterns_batch)}
  \cap {unwanted_patterns_single[k] : k \in 1..Len(unwanted_patterns_single)}

\* line holds one of them, in any letter case
C9_Denylisted(line) ==
  \E p \in C9_Phrases : Contains(Lower(line), Lower(p))

\* The lines of text that hold one, stripped
C9_DenylistedLines(text) ==
  LET lines == Split(text, <<"\n">>)
  IN  {Strip(lines[k]) : k \in {n \in 1..Len(lines) : C9_Denylisted(lines[n])}}

\* The enhancer returned what it cleaned from a textual answer
C9_EnhancedFromAnswer ==
  /\ enhanced_out.kind = "return"
  /\ gw_out.value.t = "str"
  /\ gw_out.value.s /= << >>

C10_Names(col, stripped) ==
  /\ input_file.fieldnames.t = "list"
  /\ \E k \in 1..Len(input_file.fieldnames.items) :
       (IF stripped THEN Strip(input_file.fieldnames.items[k])
        ELSE input_file.fieldnames.items[k]) = col

\* The input file is missing, or lacks a column the entry point requires
C10_InvalidInput ==
  \/ ~input_file.exists
  \/ op = "process_csv" /\ ~C10_Names(ColText, FALSE)
  \/ op = "questions"
       /\ ~(C10_Names(ColFieldName, TRUE) /\ C10_Names(ColFieldQuestion, TRUE))

\* C10: on a missing input file or a missing required column both entry
\* points end by raising, before any generation request is issued and
\* without any output CSV file written.
C10_HardFailure ==
  C10_InvalidInput
    => /\ requests = << >>
       /\ files_written = << >>
       /\ pc \in {"csv_call", "csv_read", "q_call", "q_read", "csv_done"}
       /\ pc = "csv_done" => csv_out.kind = "raise"

\* C10 witness: a file that exists, holds rows and lacks a required column
\* has been refused.
C10_Witness ==
  /\ pc = "csv_done"
  /\ input_file.exists
  /\ C10_InvalidInput
  /\ input_file.rows /= << >>
  /\ csv_out = Raise("ValueError")

C12_Lines(text) == StripNonBlank(Split(Strip(text), <<"\n">>))

\* The items the numbered lines of lines form: the text after each number
\* prefix, with the lines that follow it up to the next numbered line
RECURSIVE C12_Group(_, _, _, _)
C12_Group(lines, items, current, open) ==
  LET closed == IF open THEN Append(items, Strip(current)) ELSE items
  IN  IF lines = << >> THEN closed
      ELSE IF IsNumbered(Head(lines))
           THEN C12_Group(Tail(lines), closed, AfterNumber(Head(lines)), TRUE)
           ELSE C12_Group(Tail(lines), items,
                          IF current = << >> THEN Head(lines)
                          ELSE current \o <<" ">> \o Head(lines),
                          open)

\* text has no denylisted line and its lines form k numbered items
C12_NumberedItems(text, k) ==
  LET lines == C12_Lines(text)
  IN  /\ lines /= << >>
      /\ IsNumbered(lines[1])
      /\ \A n \in 1..Len(lines) : ~HasUnwanted(lines[n], unwanted_patterns_batch)
      /\ Cardinality({n \in 1..Len(lines) : IsNumbered(lines[n])}) = k

\* C12: for a response without denylisted lines whose lines form k numbered
\* items, _parse_batch_response(raw, k) returns the k items in order, each
\* the text after its number prefix followed by its continuation lines.
C12_NumberedItemsReturned ==
  (parse_run.kind = "return" /\ C12_NumberedItems(unit_raw, expected_count))
    => parse_run.items = C12_Group(C12_Lines(unit_raw), << >>, << >>, FALSE)

\* The non-blank lines, stripped, of everything that follows the first
\* "Enhanced:" of a response
C13_LinesAfterMarker(text) ==
  LET parts == Split(Strip(text), EnhancedMarker)
  IN  StripNonBlank(Split(Join(Tail(parts), EnhancedMarker), <<"\n">>))

\* C13: when neither the numbered split nor the blank-line split has
\* expected_count items and the response holds "Enhanced:", the candidate
\* of the marker strategy is the list of all non-blank lines after the
\* marker, and it is what the parser returns when it has expected_count
\* items.
C13_MarkerTakesAllThatFollows ==
  (/\ parse_run.kind = "return"
   /\ parse_run.strategy \notin {"numbered", "paragraphs"}
   /\ Contains(Strip(unit_raw), EnhancedMarker))
    => /\ Len(C13_LinesAfterMarker(unit_raw)) = expected_count
            => parse_run.items = C13_LinesAfterMarker(unit_raw)
       /\ parse_run.strategy = "marker"
            => parse_run.items = C13_LinesAfterMarker(unit_raw)

\* C14: the single-item enhancer and the batch parser apply the same
\* denylist: a line of the response is dropped by the parser's cleanup
\* exactly when the enhancer's list makes its cleanup drop it.
C14_SameDenylist ==
  parse_run.kind = "return"
    => \A n \in 1..Len(C12_Lines(unit_raw)) :
         LET line == C12_Lines(unit_raw)[n]
         IN  (\A k \in 1..Len(parse_run.cleaned_lines) :
                parse_run.cleaned_lines[k] /= line)
             <=> HasUnwanted(line, unwanted_patterns_single)

\* A streamed line is a well-formed chunk: a JSON object whose text
\* fragment, when it has one, is a string (or a blank keep-alive line)
C15_WellFormed(line) ==
  \/ line.t = "blank"
  \/ /\ line.t = "object"
     /\ "response" \in line.keys => line.response.t = "str"

\* The chunk is flagged terminal
C15_Terminal(line) ==
  line.t = "object" /\ "done" \in line.keys /\ Truthy(line.done)

\* The fragments of lines 1..k, concatenated in order
RECURSIVE C15_Concat(_, _)
C15_Concat(lines, k) ==
  IF k = 0 THEN << >>
  ELSE C15_Concat(lines, k - 1)
       \o (IF lines[k].t = "object" /\ "response" \in lines[k].keys
           THEN lines[k].response.s ELSE << >>)

\* The position of the first terminal chunk, or the number of chunks
C15_Last(lines) ==
  IF \E k \in 1..Len(lines) : C15_Terminal(lines[k])
  THEN CHOOSE k \in 1..Len(lines) :
         /\ C15_Terminal(lines[k])
         /\ \A j \in 1..(k - 1) : ~C15_Terminal(lines[j])
  ELSE Len(lines)

\* C15: a streamed call over well-formed chunks returns the fragments of
\* the chunks up to and including the first terminal one (of all chunks when
\* none is terminal), concatenated in arrival order; later chunks
\* contribute nothing.
C15_StreamConcatenation ==
  (/\ pc = "gw_done"
   /\ stream
   /\ exchange.kind = "ok"
   /\ \A k \in 1..Len(exchange.lines) : C15_WellFormed(exchange.lines[k]))
    => /\ gw_out = Return(PyStr(C15_Concat(exchange.lines,
                                           C15_Last(exchange.lines))))
       /\ pos = C15_Last(exchange.lines)

\* C15 witness: three chunks, the second terminal; the result is the first
\* two fragments.
C15_Witness ==
  /\ pc = "gw_done"
  /\ stream
  /\ exchange.kind = "ok"
  /\ Len(exchange.lines) = 3
  /\ \A k \in 1..3 : exchange.lines[k].t = "object"
                       /\ "response" \in exchange.lines[k].keys
                       /\ exchange.lines[k].response.t = "str"
  /\ ~C15_Terminal(exchange.lines[1])
  /\ C15_Terminal(exchange.lines[2])
  /\ gw_out = Return(PyStr(exchange.lines[1].response.s
                           \o exchange.lines[2].response.s))

\* The texts of chunks 1..k of chunk_log, concatenated
RECURSIVE C16_Concat(_)
C16_Concat(k) ==
  IF k = 0 THEN << >> ELSE C16_Concat(k - 1) \o chunk_log[k].texts

\* C16: the chunks _generate_enhanced_texts_batch works on are consecutive
\* slices of the input in the original order: no chunk is empty, every
\* chunk but the last has exactly 5 texts, the last has 1 to 5, and once
\* the call has returned the chunks concatenated are the input list.
C16_ChunksPartitionInput ==
  LET n == Len(original_texts)
  IN  /\ \A k \in 1..Len(chunk_log) :
           /\ chunk_log[k].texts =
                SubSeq(original_texts, 5 * (k - 1) + 1,
                       IF 5 * k < n THEN 5 * k ELSE n)
           /\ Len(chunk_log[k].texts) \in 1..5
           /\ 5 * k < n => Len(chunk_log[k].texts) = 5
      /\ (pc = "ea_done" /\ ea_out.kind = "return")
           => /\ C16_Concat(Len(chunk_log)) = original_texts
              /\ 5 * Len(chunk_log) >= n
              /\ 5 * Len(chunk_log) < n + 5

\* C16 witness: six texts went through as a chunk of five and a chunk of one.
C16_Witness ==
  /\ pc = "ea_done"
  /\ ea_out.kind = "return"
  /\ Len(original_texts) = 6
  /\ Len(chunk_log) = 2
  /\ Len(chunk_log[1].texts) = 5
  /\ chunk_log[2].texts = <<original_texts[6]>>

\* The requests chunks 1..k of chunk_log account for: per chunk its batch
\* request, then one request per call of the enhancer
RECURSIVE C17_Requests(_)
C17_Requests(k) ==
  IF k = 0 THEN << >>
  ELSE C17_Requests(k - 1)
       \o <<[kind |-> "batch", stream |-> FALSE,
             numbers |-> [m \in 1..Len(chunk_log[k].texts) |->
                            5 * (k - 1) + m]]>>
       \o [m \in 1..Len(chunk_log[k].calls) |->
             [kind |-> "single", text |-> chunk_log[k].calls[m]]]

C18_HasText(row) == row.text.t = "str" /\ Strip(row.text.s) /= << >>

\* The positions, in order, of the rows 1..k of the input that have text
RECURSIVE C18_TextRows(_)
C18_TextRows(k) ==
  IF k = 0 THEN << >>
  ELSE C18_TextRows(k - 1)
       \o (IF C18_HasText(input_file.rows[k]) THEN <<k>> ELSE << >>)

\* C18: when process_csv_with_filler_sentences has written its output, the
\* file has the rows of the input in the same number and order; rows whose
\* text is empty or blank were not handed to the enhancement and are written
\* as they were; the other columns of every row are unchanged; the j-th
\* enhanced text is in the row of the j-th non-empty text.
C18_RowsFramed ==
  (op = "process_csv" /\ pc = "csv_done" /\ csv_out.kind = "return")
    => LET inp  == input_file.rows
           out  == files_written[1].rows
           with == C18_TextRows(Len(inp))
       IN  /\ Len(files_written) = 1
           /\ files_written[1].fieldnames = input_file.fieldnames
           /\ Len(out) = Len(inp)
           /\ \A k \in 1..Len(inp) :
                /\ out[k].id = inp[k].id
                /\ ~C18_HasText(inp[k]) => out[k] = inp[k]
           /\ original_texts = [j \in 1..Len(with) |-> Strip(inp[with[j]].text.s)]
           /\ \A j \in 1..Len(with) :
                out[with[j]].text = PyStr(ea_out.value[j])
           /\ with = << >> => requests = << >>

\* C18 witness: a blank row before a row with text; the second row carries
\* the one enhanced text, the first is as it was.
C18_Witness ==
  /\ op = "process_csv"
  /\ pc = "csv_done"
  /\ csv_out.kind = "return"
  /\ Len(input_file.rows) = 2
  /\ input_file.rows[1].text = PyStr(<<" "," ">>)
  /\ C18_HasText(input_file.rows[2])
  /\ files_written[1].rows[1] = input_file.rows[1]
  /\ files_written[1].rows[2].text = PyStr(ea_out.value[1])
  /\ files_written[1].rows[2].text /= input_file.rows[2].text

\* C19: every element of the list _generate_enhanced_texts_batch returns is
\* a non-empty string, for non-empty input texts and every gateway answer,
\* whether the element was accepted from the parser or came from the
\* per-item fallback.
C19_NoEmptyOutput ==
  (/\ pc = "ea_done"
   /\ ea_out.kind = "return"
   /\ \A k \in 1..Len(original_texts) : original_texts[k] /= << >>)
    => \A k \in 1..Len(ea_out.value) : ea_out.value[k] /= << >>

=============================================================================
